---- MODULE Spec2Model ----
(***************************************************************************)
(* Quantum.Qiskit: the circuits the driver scripts build, and the          *)
(* statevector engine / sampler they hand them to.                         *)
(*                                                                         *)
(* Amplitudes.  Every gate the scripts use (H, X, Z, id, CNOT, SWAP,       *)
(* multi-controlled X, barrier) keeps amplitudes in Z[1/sqrt 2].  A state  *)
(* is a pair (amp, k): amp is a function from basis index (little-endian,  *)
(* qubit 0 = least significant bit) to an integer, and the amplitude of    *)
(* basis state i is amp[i] / (sqrt 2)^k.  The squared norm is              *)
(* NormSq(amp) / 2^k; arithmetic is exact.                                 *)
(***************************************************************************)
EXTENDS Integers, Sequences, FiniteSets, TLC

VARIABLES
  \* one simulation run: the circuit, the position in it, the state, the classical bits
  job, ops, pc, amp, k, creg,
  \* building a circuit from a template: which script, the template sub-circuit, the
  \* target circuit, the number of compositions done, and where each copy was put
  script, template, target, composed, log,
  \* two executions of one driver script: the circuit and shot count, each execution's
  \* seed and histogram, and the generator state the last execution ended with
  sjob, shots, seed, hist, rng,
  \* shor_algorithm's period recovery: the measured values (decimal) consumed so far, the list
  \* measured_periods, and whether a division by zero was attempted
  measured, measured_periods, zerodiv,
  \* the last call of a component that can detect an error, and what its caller got
  call

simVars == <<job, ops, pc, amp, k, creg>>
composeVars == <<script, template, target, composed, log>>
sampleVars == <<sjob, shots, seed, hist, rng>>

postVars == <<measured, measured_periods, zerodiv>>
errVars == <<call>>

vars == <<simVars, composeVars, sampleVars, postVars, errVars>>

(***************************************************************************)
(* Bounds of the model.                                                    *)
(***************************************************************************)
\* Largest register of the Grover phase oracle that is explored (the script uses 4).
MaxOracleN == 4
\* Largest power handed to c_amod15.
MaxPower == 8
\* Largest number of Grover iterations composed into grover_circuit.
MaxIter == 4
\* Largest number of operations appended to a template after it was built.
MaxMutations == 2
\* Largest number of operations appended to a target besides the compositions.
MaxAppends == 2
\* Largest shot count of an execution (the scripts use 1000, 1024 and 8192).
MaxShots == 3
\* Seeds are 0 .. MaxSeed.
MaxSeed == 3
\* Largest number of distinct measured strings in counts.
MaxMeasured == 2

(***************************************************************************)
(* Program constants.                                                      *)
(***************************************************************************)
\* simon_algorithm.py: N
SimonN == 3
\* grover_algorithm.py: NUM_QUBITS
NUM_QUBITS == 4
\* shor_algorithm.py: a
ShorA == 7
\* shor_algorithm.py: n_count
N_COUNT == 8
\* shor_algorithm.py: N
ShorN == 15

(***************************************************************************)
(* Bit strings: a Python string such as "101" is the sequence <<1,0,1>>,   *)
(* leftmost character first.                                               *)
(***************************************************************************)
BitStrings(n) == [1..n -> {0, 1}]

Bit(i, q) == (i \div (2 ^ q)) % 2

Flip(i, q) == IF Bit(i, q) = 1 THEN i - 2 ^ q ELSE i + 2 ^ q

RECURSIVE IntOfFrom(_, _)
IntOfFrom(s, i) ==
  IF i > Len(s) THEN 0 ELSE s[i] * 2 ^ (Len(s) - i) + IntOfFrom(s, i + 1)

\* int(s, 2)
IntOf(s) == IntOfFrom(s, 1)

\* reversed(s) / s[::-1]
Reversed(s) == [i \in 1..Len(s) |-> s[Len(s) + 1 - i]]

(***************************************************************************)
(* Operations of a circuit (the Operation variant of the data model).      *)
(***************************************************************************)
Op(g, ctl, tgt, cb) == [g |-> g, ctl |-> ctl, tgt |-> tgt, cb |-> cb]

H(q) == Op("h", {}, <<q>>, -1)
X(q) == Op("x", {}, <<q>>, -1)
Z(q) == Op("z", {}, <<q>>, -1)
Id(q) == Op("id", {}, <<q>>, -1)
CX(c, t) == Op("cx", {c}, <<t>>, -1)
SWAP(p, q) == Op("swap", {}, <<p, q>>, -1)
MCX(cs, t) == Op("mcx", cs, <<t>>, -1)
Barrier == Op("barrier", {}, <<>>, -1)
Measure(q, b) == Op("measure", {}, <<q>>, b)

\* qc.h(range(n))
HLayer(n) == [i \in 1..n |-> H(i - 1)]
\* qc.measure(range(n), range(n)) / circuit.measure(qr, cr)
MeasureAll(n) == [i \in 1..n |-> Measure(i - 1, i - 1)]

(***************************************************************************)
(* StatevectorEngine: one operation applied to an amplitude vector.        *)
(***************************************************************************)
Indices(n) == 0..(2 ^ n - 1)

ZeroState(n) == [i \in Indices(n) |-> IF i = 0 THEN 1 ELSE 0]

RECURSIVE SumSqTo(_, _)
SumSqTo(a, i) == IF i < 0 THEN 0 ELSE a[i] * a[i] + SumSqTo(a, i - 1)

NormSq(a) == SumSqTo(a, Cardinality(DOMAIN a) - 1)

ApplyH(a, q) ==
  [i \in DOMAIN a |->
     IF Bit(i, q) = 0 THEN a[i] + a[Flip(i, q)] ELSE a[Flip(i, q)] - a[i]]

ApplyX(a, q) == [i \in DOMAIN a |-> a[Flip(i, q)]]

ApplyZ(a, q) == [i \in DOMAIN a |-> IF Bit(i, q) = 1 THEN -a[i] ELSE a[i]]

ApplyMCX(a, cs, t) ==
  [i \in DOMAIN a |->
     IF \A c \in cs : Bit(i, c) = 1 THEN a[Flip(i, t)] ELSE a[i]]

SwapBits(i, p, q) == IF Bit(i, p) = Bit(i, q) THEN i ELSE Flip(Flip(i, p), q)

ApplySwap(a, p, q) == [i \in DOMAIN a |-> a[SwapBits(i, p, q)]]

Project(a, q, b) == [i \in DOMAIN a |-> IF Bit(i, q) = b THEN a[i] ELSE 0]

\* (amp, k) and (amp / 2, k - 2) are the same state: keep the smallest k.
RECURSIVE Normalize(_, _)
Normalize(a, e) ==
  IF e >= 2 /\ \A i \in DOMAIN a : a[i] % 2 = 0
  THEN Normalize([i \in DOMAIN a |-> a[i] \div 2], e - 2)
  ELSE <<a, e>>

\* Squared norm NormSq(a) / 2^e as a fraction <<numerator, exponent>> in lowest terms.
RECURSIVE Reduce(_, _)
Reduce(num, e) ==
  IF e >= 1 /\ num % 2 = 0 /\ num # 0 THEN Reduce(num \div 2, e - 1) ELSE <<num, e>>

Weight(a, e) == Reduce(NormSq(a), e)

(***************************************************************************)
(* The circuits the scripts build.                                         *)
(***************************************************************************)
\* entanglement.py
BellCircuit == <<H(0), CX(0, 1)>> \o MeasureAll(2)

GHZCircuitSwappedCnot == <<H(0), CX(0, 1), CX(2, 1)>> \o MeasureAll(3)

\* ghz_state.py
GHZCircuit == <<H(0), CX(0, 1), CX(1, 2)>> \o MeasureAll(3)

CnotExampleReversedCnot == <<X(0), X(1), CX(1, 0)>> \o MeasureAll(2)

\* cnot_examples.py
CnotExampleCircuit == <<X(0), X(1), CX(0, 1)>> \o MeasureAll(2)

\* deutsch_algorithm.py: create_oracle(type); raised = the ValueError branch.
DeutschCreateOracle(type) ==
  IF type = "constant" THEN [raised |-> FALSE, gate |-> <<>>]
  ELSE IF type = "balanced" THEN [raised |-> FALSE, gate |-> <<CX(0, 1)>>]
  ELSE [raised |-> TRUE, gate |-> <<>>]

\* deutsch_algorithm.py: deutsch_algorithm(oracle), the circuit it runs.
DeutschCircuit(oracle) ==
  <<X(1), H(0), H(1)>> \o oracle \o <<H(0), Measure(0, 0)>>

\* on-hardware/ibm_brisbane_deutsch.py: build_oracle
HwBuildOracle(secret_bit) ==
  IF secret_bit = 1 THEN <<CX(0, 1)>> ELSE <<Id(0)>>

HwDeutschCircuitNoFinalH(secret_bit) ==
  <<X(1), H(0), H(1)>> \o HwBuildOracle(secret_bit)
    \o <<Measure(0, 0), H(1), Z(1)>>

\* on-hardware/ibm_brisbane_deutsch.py: deutsch_algorithm(secret_bit)
HwDeutschCircuit(secret_bit) ==
  <<X(1), H(0), H(1)>> \o HwBuildOracle(secret_bit)
    \o <<H(0), Measure(0, 0), H(1), Z(1)>>

\* simon_algorithm.py: the second loop of make_simon_oracle, from index i on.
RECURSIVE SimonPeriodLoop(_, _, _)
SimonPeriodLoop(n, s_list, i) ==
  IF i >= n THEN <<>>
  ELSE (IF s_list[i + 1] = 1 THEN [j \in 1..n |-> CX(i, (j - 1) + n)] ELSE <<>>)
         \o SimonPeriodLoop(n, s_list, i + 1)

\* simon_algorithm.py: make_simon_oracle(n, s)
MakeSimonOracle(n, s) ==
  LET s_list == Reversed(s)
  IN [i \in 1..n |-> CX(i - 1, (i - 1) + n)] \o SimonPeriodLoop(n, s_list, 0)

\* simon_algorithm.py: make_simon_circuit(n, oracle)
MakeSimonCircuit(n, oracle) ==
  HLayer(n) \o <<Barrier>> \o oracle \o <<Barrier>> \o HLayer(n) \o <<Barrier>>
    \o MeasureAll(n)

GroverXLoopNotReversed(marked_state) ==
  LET n == Len(marked_state)
  IN SelectSeq([i \in 1..n |-> X(i - 1)], LAMBDA o : marked_state[o.tgt[1] + 1] = 0)

\* grover_algorithm.py: the loop "if bit == '0': oracle.x(i)" over reversed(marked_state)
GroverXLoop(marked_state) ==
  LET n == Len(marked_state)
      r == Reversed(marked_state)
  IN SelectSeq([i \in 1..n |-> X(i - 1)], LAMBDA o : r[o.tgt[1] + 1] = 0)

GroverCreateOracleAllControls(marked_state) ==
  LET n == Len(marked_state)
      control_qubits == 0..(n - 1)
  IN GroverXLoop(marked_state)
       \o <<H(n - 1), MCX(control_qubits, n - 1), H(n - 1)>>
       \o GroverXLoop(marked_state)
       \o <<Barrier>>

\* grover_algorithm.py: create_oracle(marked_state)
GroverCreateOracle(marked_state) ==
  LET n == Len(marked_state)
      control_qubits == 0..(n - 1)
  IN GroverXLoop(marked_state)
       \o <<H(n - 1), MCX(control_qubits \ {n - 1}, n - 1), H(n - 1)>>
       \o GroverXLoop(marked_state)
       \o <<Barrier>>

\* grover_algorithm.py: MARKED_STATE = "1101"
MARKED_STATE == <<1, 1, 0, 1>>

\* GroverOperator(oracle, insert_barriers=True): the iterate = oracle, then the
\* diffusion (H layer, phase flip about |0..0> through a multi-controlled Z, H layer).
GroverOperator(oracle, n) ==
  oracle \o <<Barrier>> \o HLayer(n) \o [i \in 1..n |-> X(i - 1)]
    \o <<H(n - 1), MCX(0..(n - 2), n - 1), H(n - 1)>>
    \o [i \in 1..n |-> X(i - 1)] \o HLayer(n)

\* grover_algorithm.py: NUM_SOLUTIONS
NUM_SOLUTIONS == 1

\* floor(pi / (4 * theta)) with sin(theta) = sqrt(M / N), 0 < theta <= pi / 2, is the
\* largest j with 2 * j * theta <= pi / 2.  The angle grows by 2 * theta <= pi per
\* step, so it is the last j before cos(2 * j * theta) first turns negative.  With
\* cos(2 * theta) = 1 - 2 * M / N, the integers t_j = N^j * cos(2 * j * theta) obey
\* t_0 = 1, t_1 = N - 2 * M, t_(j+1) = 2 * (N - 2 * M) * t_j - N^2 * t_(j-1).
\* FloorQuarterTurn is called with t = t_j and tnext = t_(j+1).
RECURSIVE FloorQuarterTurn(_, _, _, _, _)
FloorQuarterTurn(N, M, j, t, tnext) ==
  IF tnext < 0 THEN j
  ELSE FloorQuarterTurn(N, M, j + 1, tnext, 2 * (N - 2 * M) * tnext - N * N * t)

calculate_optimal_iterations_ceil(N, M) ==
  IF M > N THEN 0 ELSE FloorQuarterTurn(N, M, 0, 1, N - 2 * M) + 1

\* grover_algorithm.py: calculate_optimal_iterations(N, M), for M >= 1.
calculate_optimal_iterations(N, M) ==
  IF M > N THEN 0 ELSE FloorQuarterTurn(N, M, 0, 1, N - 2 * M)

\* grover_algorithm.py: OPTIMAL_ITERATIONS = calculate_optimal_iterations(N, NUM_SOLUTIONS)
OPTIMAL_ITERATIONS == calculate_optimal_iterations(2 ^ NUM_QUBITS, NUM_SOLUTIONS)

RECURSIVE Repeat(_, _)
Repeat(block, r) == IF r = 0 THEN <<>> ELSE block \o Repeat(block, r - 1)

\* grover_algorithm.py: grover_circuit with R iterations of grover_op composed in.
GroverCircuit(r) ==
  LET grover_op == GroverOperator(GroverCreateOracle(MARKED_STATE), NUM_QUBITS)
  IN HLayer(NUM_QUBITS) \o <<Barrier>> \o Repeat(grover_op \o <<Barrier>>, r)
       \o MeasureAll(NUM_QUBITS)

\* shor_algorithm.py: c_amod15(a, power), the operations of the returned gate.
CAmod15(a, power) ==
  IF a # 7 THEN <<>>
  ELSE IF power % 4 = 0 THEN <<>>
  ELSE IF power % 4 = 1 THEN <<SWAP(0, 1), SWAP(1, 2), SWAP(2, 3)>>
  ELSE IF power % 4 = 2 THEN <<SWAP(1, 3), SWAP(0, 2)>>
  ELSE <<SWAP(0, 3), SWAP(0, 2), SWAP(1, 3)>>

\* X gates that set the register to the basis state x (cnot_examples.py sets |11> so).
PrepBasis(n, x) ==
  SelectSeq([i \in 1..n |-> X(i - 1)], LAMBDA o : Bit(x, o.tgt[1]) = 1)

(***************************************************************************)
(* The runs that are explored: each is a circuit on nq qubits and ncl      *)
(* classical bits, started in the all-zero state.                          *)
(***************************************************************************)
Job(name, s, x, p, nq, ncl) ==
  [name |-> name, s |-> s, x |-> x, p |-> p, nq |-> nq, ncl |-> ncl]

NonZero(S) == {s \in S : \E i \in DOMAIN s : s[i] = 1}

Jobs ==
  {Job("bell", <<>>, 0, 0, 2, 2), Job("ghz", <<>>, 0, 0, 3, 3),
   Job("cnot", <<>>, 0, 0, 2, 2)}
  \cup {Job("deutsch", <<>>, 0, t, 2, 1) : t \in {0, 1}}
  \cup {Job("hwdeutsch", <<>>, 0, t, 2, 1) : t \in {0, 1}}
  \cup {Job("simon", s, 0, 0, 2 * SimonN, SimonN) : s \in NonZero(BitStrings(SimonN))}
  \cup {Job("simon_oracle", s, x, 0, 2 * SimonN, 0) :
          s \in NonZero(BitStrings(SimonN)), x \in Indices(SimonN)}
  \cup UNION {{Job("grover_oracle", s, x, p, n, 0) :
                 s \in BitStrings(n), x \in Indices(n), p \in {0, 1}} :
              n \in 2..MaxOracleN}
  \cup {Job("grover", MARKED_STATE, 0, r, NUM_QUBITS, NUM_QUBITS) : r \in 0..MaxIter}
  \cup {Job("amod15", <<>>, x, p, 4, 0) : x \in Indices(4), p \in 0..MaxPower}

OracleType(t) == IF t = 0 THEN "constant" ELSE "balanced"

CircuitOf(j) ==
  CASE j.name = "bell" -> BellCircuit
    [] j.name = "ghz" -> GHZCircuit
    [] j.name = "cnot" -> CnotExampleCircuit
    [] j.name = "deutsch" -> DeutschCircuit(DeutschCreateOracle(OracleType(j.p)).gate)
    [] j.name = "hwdeutsch" -> HwDeutschCircuit(j.p)
    [] j.name = "simon" -> MakeSimonCircuit(SimonN, MakeSimonOracle(SimonN, j.s))
    [] j.name = "simon_oracle" ->
         PrepBasis(SimonN, j.x) \o <<Barrier>> \o MakeSimonOracle(SimonN, j.s)
    [] j.name = "grover_oracle" ->
         (IF j.p = 0 THEN PrepBasis(j.nq, j.x) ELSE HLayer(j.nq))
           \o <<Barrier>> \o GroverCreateOracle(j.s)
    [] j.name = "grover" -> GroverCircuit(j.p)
    [] j.name = "amod15" -> PrepBasis(4, j.x) \o <<Barrier>> \o CAmod15(ShorA, j.p)

(***************************************************************************)
(* Simulation: one action per kind of operation.                           *)
(***************************************************************************)
ComposeIdle ==
  script = "none" /\ template = <<>> /\ target = <<>> /\ composed = 0 /\ log = <<>>

SampleIdle ==
  sjob = "none" /\ shots = 0 /\ seed = <<>> /\ hist = <<>> /\ rng = 0

PostIdle == measured = {} /\ measured_periods = <<>> /\ zerodiv = FALSE

NoCall ==
  [comp |-> "none", a |-> 0, power |-> 0, type |-> "", detected |-> FALSE,
   outcome |-> "none"]

ErrIdle == call = NoCall

SimIdle ==
  /\ job = Job("none", <<>>, 0, 0, 0, 0)
  /\ ops = <<>> /\ pc = 1 /\ amp = ZeroState(0) /\ k = 0 /\ creg = <<>>

InitSim ==
  /\ job \in Jobs
  /\ ops = CircuitOf(job)
  /\ pc = 1
  /\ amp = ZeroState(job.nq)
  /\ k = 0
  /\ creg = [b \in 0..(job.ncl - 1) |-> -1]
  /\ ComposeIdle
  /\ SampleIdle
  /\ PostIdle
  /\ ErrIdle

Running == pc <= Len(ops)
Done == pc = Len(ops) + 1
Cur == ops[pc]

Advance(a, e) ==
  /\ amp' = Normalize(a, e)[1]
  /\ k' = Normalize(a, e)[2]
  /\ pc' = pc + 1
  /\ UNCHANGED <<job, ops, composeVars, sampleVars, postVars, errVars>>

StepH ==
  /\ Running /\ Cur.g = "h"
  /\ Advance(ApplyH(amp, Cur.tgt[1]), k + 1)
  /\ UNCHANGED creg

StepX ==
  /\ Running /\ Cur.g = "x"
  /\ Advance(ApplyX(amp, Cur.tgt[1]), k)
  /\ UNCHANGED creg

StepZ ==
  /\ Running /\ Cur.g = "z"
  /\ Advance(ApplyZ(amp, Cur.tgt[1]), k)
  /\ UNCHANGED creg

StepId ==
  /\ Running /\ Cur.g = "id"
  /\ Advance(amp, k)
  /\ UNCHANGED creg

StepCX ==
  /\ Running /\ Cur.g = "cx"
  /\ Advance(ApplyMCX(amp, Cur.ctl, Cur.tgt[1]), k)
  /\ UNCHANGED creg

StepMCX ==
  /\ Running /\ Cur.g = "mcx"
  /\ Advance(ApplyMCX(amp, Cur.ctl, Cur.tgt[1]), k)
  /\ UNCHANGED creg

StepSwap ==
  /\ Running /\ Cur.g = "swap"
  /\ Advance(ApplySwap(amp, Cur.tgt[1], Cur.tgt[2]), k)
  /\ UNCHANGED creg

StepBarrier ==
  /\ Running /\ Cur.g = "barrier"
  /\ Advance(amp, k)
  /\ UNCHANGED creg

\* A measurement has an outcome b of non-zero probability; the state is projected on
\* it and left unnormalized, so that Weight(amp, k) is the probability of the
\* outcomes recorded in creg so far.
StepMeasure ==
  /\ Running /\ Cur.g = "measure"
  /\ \E b \in {0, 1} :
       LET pa == Project(amp, Cur.tgt[1], b)
       IN /\ NormSq(pa) > 0
          /\ Advance(pa, k)
          /\ creg' = [creg EXCEPT ![Cur.cb] = b]

NextSim ==
  \/ StepH
  \/ StepX
  \/ StepZ
  \/ StepId
  \/ StepCX
  \/ StepMCX
  \/ StepSwap
  \/ StepBarrier
  \/ StepMeasure

Spec == InitSim /\ [][NextSim]_vars

(***************************************************************************)
(* Reading a state.                                                        *)
(***************************************************************************)
\* Born rule: the probability of basis outcome i, as a fraction in lowest terms.
Prob(i) == Reduce(amp[i] * amp[i], k)

Half == <<1, 1>>
One == <<1, 0>>

Unmeasured == \A b \in DOMAIN creg : creg[b] = -1

\* The first measurement of a circuit that ends with measure-all.
AtMeasureAll == pc = Len(ops) - job.nq + 1

AllOnes(n) == 2 ^ n - 1

\* The index of the one basis state a permuted basis state sits on.
BasisIndex(a) == CHOOSE i \in DOMAIN a : a[i] # 0

IsBasisState(a) == Cardinality({i \in DOMAIN a : a[i] # 0}) = 1

\* The value held by qubits lo .. lo + w - 1 of basis index i.
Register(i, lo, w) == (i \div (2 ^ lo)) % (2 ^ w)

RECURSIVE XorFrom(_, _, _)
XorFrom(x, y, q) ==
  IF q < 0 THEN 0
  ELSE ((Bit(x, q) + Bit(y, q)) % 2) * 2 ^ q + XorFrom(x, y, q - 1)

\* x XOR y on n-bit values
Xor(x, y, n) == XorFrom(x, y, n - 1)

\* A permutation circuit (X, CNOT, mcx, SWAP, id, barrier) applied to an amplitude vector.
ApplyPermOp(a, o) ==
  CASE o.g = "x" -> ApplyX(a, o.tgt[1])
    [] o.g \in {"cx", "mcx"} -> ApplyMCX(a, o.ctl, o.tgt[1])
    [] o.g = "swap" -> ApplySwap(a, o.tgt[1], o.tgt[2])
    [] OTHER -> a

RECURSIVE RunPerm(_, _, _)
RunPerm(c, a, i) == IF i > Len(c) THEN a ELSE RunPerm(c, ApplyPermOp(a, c[i]), i + 1)

\* f(x): what make_simon_oracle(n, s) leaves in the output register on input x.
SimonF(n, s, x) ==
  Register(BasisIndex(RunPerm(PrepBasis(n, x) \o MakeSimonOracle(n, s),
                              ZeroState(2 * n), 1)), n, n)

(***************************************************************************)
(* C1.  Bell (n = 2) and GHZ (n = 3): H(0) then the CNOT chain gives, when *)
(* every qubit is measured, exactly the outcomes all-zeros and all-ones,   *)
(* each with probability exactly 1/2, and every other bit string has       *)
(* probability 0.                                                          *)
(***************************************************************************)
C1_BellGhzOutcomes ==
  job.name \in {"bell", "ghz"} =>
    /\ AtMeasureAll =>
         \A i \in DOMAIN amp :
           IF i \in {0, AllOnes(job.nq)} THEN Prob(i) = Half ELSE amp[i] = 0
    /\ Done =>
         /\ \/ \A b \in DOMAIN creg : creg[b] = 0
            \/ \A b \in DOMAIN creg : creg[b] = 1
         /\ Weight(amp, k) = Half

C1_Witness ==
  job.name = "ghz" /\ Done /\ (\A b \in DOMAIN creg : creg[b] = 1)
    /\ Weight(amp, k) = Half

(***************************************************************************)
(* C2.  Deutsch: the measured bit is 0 with probability 1 for the constant *)
(* oracle and 1 with probability 1 for the balanced oracle, in both        *)
(* implementations (the hardware one applies H and Z to qubit 1 after the  *)
(* measurement).                                                           *)
(***************************************************************************)
C2_DeutschDecides ==
  (job.name \in {"deutsch", "hwdeutsch"} /\ ~Unmeasured) =>
    /\ creg[0] = job.p
    /\ Weight(amp, k) = One

C2_Witness ==
  job.name = "hwdeutsch" /\ job.p = 1 /\ Done /\ creg[0] = 1

(***************************************************************************)
(* C3.  The squared norm is 1 in the all-zero initial state and after      *)
(* every single operation of every circuit: it is 1 as long as nothing was *)
(* measured, and no gate (H, X, Z, id, CNOT, SWAP, mcx, barrier) changes   *)
(* it, also when it acts after a measurement.                              *)
(***************************************************************************)
C3_NormOne == Unmeasured => Weight(amp, k) = One

C3_GatePreservesNorm ==
  (Running /\ Cur.g # "measure") => Weight(amp', k') = Weight(amp, k)

\* C3: the norm is 1 before any measurement, and every gate step preserves it.
C3_Unitarity == [](C3_NormOne) /\ [][C3_GatePreservesNorm]_vars

C3_Witness ==
  job.name = "grover" /\ job.p = MaxIter /\ AtMeasureAll /\ k > NUM_QUBITS
    /\ Weight(amp, k) = One

(***************************************************************************)
(* C4.  A controlled X with k >= 1 controls changes only amplitudes of     *)
(* basis states whose control bits are all 1, swapping each such pair that *)
(* differs in the target bit alone; every other amplitude is unchanged.    *)
(* And X(0), X(1), CNOT(0 -> 1) from the all-zero state gives the single   *)
(* outcome qubit 0 = 1, qubit 1 = 0 ("01") with probability 1.             *)
(***************************************************************************)
C4_ControlledXFrame ==
  (Running /\ Cur.g \in {"cx", "mcx"}) =>
    /\ Cardinality(Cur.ctl) >= 1
    /\ k' = k
    /\ \A i \in DOMAIN amp :
         IF \E c \in Cur.ctl : Bit(i, c) = 0
         THEN amp'[i] = amp[i]
         ELSE \E j \in DOMAIN amp :
                /\ amp'[i] = amp[j]
                /\ \A q \in 0..(job.nq - 1) : (Bit(j, q) # Bit(i, q)) <=> (q = Cur.tgt[1])

C4_CnotExample ==
  (job.name = "cnot" /\ Done) =>
    creg[0] = 1 /\ creg[1] = 0 /\ Weight(amp, k) = One

\* C4: every controlled-X step acts only where all controls are 1, flipping the
\* target bit alone, and the CNOT example ends in "01" with probability 1.
C4_ControlledX == [](C4_CnotExample) /\ [][C4_ControlledXFrame]_vars

C4_Witness ==
  job.name = "cnot" /\ Done /\ creg[0] = 1 /\ creg[1] = 0

\* y . s (mod 2) for measured bits y (classical bit i = qubit i) and s_list[i] = s_i.
DotMod2(y, s_list) ==
  Cardinality({i \in DOMAIN y : y[i] = 1 /\ s_list[i + 1] = 1}) % 2

(***************************************************************************)
(* C7.  Simon circuit for n = 3, s = "101": every measured y satisfies     *)
(* y . s = 0 (mod 2).                                                      *)
(***************************************************************************)
C7_SimonOrthogonal ==
  (job.name = "simon" /\ job.s = <<1, 0, 1>> /\ Done) =>
    DotMod2(creg, Reversed(job.s)) = 0

(***************************************************************************)
(* C8.  The function f that make_simon_oracle(n, s) computes into the      *)
(* output register is s-periodic: f(x) = f(x XOR s) for every input x.     *)
(***************************************************************************)
C8_SimonPeriodic ==
  (job.name = "simon_oracle" /\ Done) =>
    Register(BasisIndex(amp), SimonN, SimonN)
      = SimonF(SimonN, job.s, Xor(job.x, IntOf(job.s), SimonN))

\* 7^p mod 15
PowerOf7Mod15(p) ==
  CASE p % 4 = 0 -> 1
    [] p % 4 = 1 -> 7
    [] p % 4 = 2 -> 4
    [] p % 4 = 3 -> 13

(***************************************************************************)
(* C9.  c_amod15(7, p) maps every basis value x <= 14 to (7^p * x) mod 15: *)
(* x, 7x, 4x, 13x mod 15 for p mod 4 = 0, 1, 2, 3.                         *)
(***************************************************************************)
C9_Amod15Multiplies ==
  (job.name = "amod15" /\ Done /\ job.x <= 14) =>
    BasisIndex(amp) = (PowerOf7Mod15(job.p) * job.x) % 15

\* The state the oracle is applied to: basis state x (p = 0) or the uniform
\* superposition (p = 1), as integer amplitudes.
OracleInput(j) ==
  [i \in Indices(j.nq) |-> IF j.p = 0 THEN (IF i = j.x THEN 1 ELSE 0) ELSE 1]

(***************************************************************************)
(* C10.  create_oracle(marked_state) is diagonal: it multiplies the        *)
(* amplitude of basis state int(marked_state, 2) by -1 and leaves every    *)
(* other amplitude unchanged (checked on every basis state and on the      *)
(* uniform superposition, n = 2 .. MaxOracleN).                            *)
(***************************************************************************)
C10_PhaseOracle ==
  (job.name = "grover_oracle" /\ Done) =>
    /\ k = (IF job.p = 0 THEN 0 ELSE job.nq)
    /\ \A i \in DOMAIN amp :
         amp[i] = (IF i = IntOf(job.s) THEN -1 ELSE 1) * OracleInput(job)[i]

C10_Witness ==
  /\ job.name = "grover_oracle" /\ Done /\ job.nq = 4 /\ job.s = MARKED_STATE
  /\ job.p = 1 /\ amp[13] = -1 /\ amp[11] = 1

(***************************************************************************)
(* CircuitModel: composing a template sub-circuit into a target circuit.   *)
(***************************************************************************)
\* simon_algorithm.py: SECRET_STRING = "101"
SECRET_STRING == <<1, 0, 1>>

\* A qubit list such as [0, 1] or range(2 * n): sub-circuit qubit q goes to m[q + 1].
RangeMap(n) == [i \in 1..n |-> i - 1]

Remap(o, m) ==
  [o EXCEPT !.ctl = {m[c + 1] : c \in @},
            !.tgt = [i \in DOMAIN @ |-> m[@[i] + 1]]]

\* append_circuit(sub, mapping): the operations of sub are copied, renamed, to the
\* end of the target's own sequence.
AppendCircuit(tgt, sub, m) == tgt \o [i \in 1..Len(sub) |-> Remap(sub[i], m)]

\* The two circuits a script holds while it builds: c.target and c.template.
Circuits(tgt, tpl) == [target |-> tgt, template |-> tpl]

GroverLoopBodySwapped(c) ==
  [c EXCEPT !.template =
     Append(AppendCircuit(c.template, c.target, RangeMap(NUM_QUBITS)), Barrier)]

\* grover_algorithm.py: grover_circuit.compose(grover_op, inplace=True); grover_circuit.barrier()
GroverLoopBody(c) ==
  [c EXCEPT !.target =
     Append(AppendCircuit(c.target, c.template, RangeMap(NUM_QUBITS)), Barrier)]

\* deutsch_algorithm.py: qc.append(oracle, [0, 1])
DeutschAppendOracle(c) ==
  [c EXCEPT !.target = AppendCircuit(c.target, c.template, <<0, 1>>)]

\* simon_algorithm.py: qc.append(oracle, range(2 * n))
SimonAppendOracle(c) ==
  [c EXCEPT !.target = AppendCircuit(c.target, c.template, RangeMap(2 * SimonN))]

Scripts == {"grover", "deutsch_constant", "deutsch_balanced", "simon"}

\* The sub-circuit a script builds first: grover_op, the Deutsch oracle, the Simon oracle.
TemplateOf(sc) ==
  CASE sc = "grover" -> GroverOperator(GroverCreateOracle(MARKED_STATE), NUM_QUBITS)
    [] sc = "deutsch_constant" -> DeutschCreateOracle("constant").gate
    [] sc = "deutsch_balanced" -> DeutschCreateOracle("balanced").gate
    [] sc = "simon" -> MakeSimonOracle(SimonN, SECRET_STRING)

\* What the target holds before the template is composed in.
TargetPrefix(sc) ==
  CASE sc = "grover" -> HLayer(NUM_QUBITS) \o <<Barrier>>
    [] sc \in {"deutsch_constant", "deutsch_balanced"} -> <<X(1), H(0), H(1)>>
    [] sc = "simon" -> HLayer(SimonN) \o <<Barrier>>

\* How often a script composes its template: OPTIMAL_ITERATIONS times, or once.
Compositions(sc) == IF sc = "grover" THEN OPTIMAL_ITERATIONS ELSE 1

LogEntry(kind, at, block) == [kind |-> kind, at |-> at, block |-> block]

CountKind(kind) == Cardinality({i \in DOMAIN log : log[i].kind = kind})

InitCompose ==
  /\ script \in Scripts
  /\ template = TemplateOf(script)
  /\ target = TargetPrefix(script)
  /\ composed = 0
  /\ log = <<>>
  /\ SimIdle
  /\ SampleIdle
  /\ PostIdle
  /\ ErrIdle

ComposeGrover ==
  /\ script = "grover" /\ composed < Compositions(script)
  /\ LET c == GroverLoopBody(Circuits(target, template))
     IN target' = c.target /\ template' = c.template
  /\ composed' = composed + 1
  /\ log' = log \o <<LogEntry("compose", Len(target), template),
                     LogEntry("barrier", Len(target) + Len(template), <<Barrier>>)>>
  /\ UNCHANGED <<script, simVars, sampleVars, postVars, errVars>>

AppendOracle ==
  /\ script # "grover" /\ composed < Compositions(script)
  /\ LET c == IF script = "simon"
              THEN SimonAppendOracle(Circuits(target, template))
              ELSE DeutschAppendOracle(Circuits(target, template))
     IN target' = c.target /\ template' = c.template
  /\ composed' = composed + 1
  /\ log' = Append(log, LogEntry("compose", Len(target), template))
  /\ UNCHANGED <<script, simVars, sampleVars, postVars, errVars>>

\* An operation appended to the target itself (qc.h(0), qc.measure(0, 0), ...).
AppendToTarget ==
  /\ CountKind("append") < MaxAppends
  /\ \E o \in {H(0), Measure(0, 0)} :
       /\ target' = Append(target, o)
       /\ log' = Append(log, LogEntry("append", Len(target), <<o>>))
  /\ UNCHANGED <<script, template, composed, simVars, sampleVars, postVars, errVars>>

\* An operation appended to the template after it was built.
MutateTemplate ==
  /\ Len(template) < Len(TemplateOf(script)) + MaxMutations
  /\ \E o \in {X(0), Z(1)} : template' = Append(template, o)
  /\ UNCHANGED <<script, target, composed, log, simVars, sampleVars, postVars, errVars>>

NextCompose ==
  \/ ComposeGrover
  \/ AppendOracle
  \/ AppendToTarget
  \/ MutateTemplate

SpecCompose == InitCompose /\ [][NextCompose]_vars

RECURSIVE FlattenLog(_, _)
FlattenLog(l, i) == IF i > Len(l) THEN <<>> ELSE l[i].block \o FlattenLog(l, i + 1)

(***************************************************************************)
(* C5.  Composition is a value copy: (i) composing never changes the       *)
(* template, (ii) changing the template afterwards never changes the       *)
(* target, (iii) after R compositions the target holds R copies of the     *)
(* template's operations (as they were when composed), in order, each      *)
(* after the operations appended before it.                                *)
(***************************************************************************)
C5_TemplateKept == (composed' # composed) => template' = template

C5_TargetKept == (template' # template) => target' = target

C5_Copies ==
  script # "none" =>
    /\ target = TargetPrefix(script) \o FlattenLog(log, 1)
    /\ CountKind("compose") = composed
    /\ \A i \in DOMAIN log :
         /\ SubSeq(target, log[i].at + 1, log[i].at + Len(log[i].block)) = log[i].block
         /\ i > 1 => log[i].at = log[i - 1].at + Len(log[i - 1].block)
    /\ template = TemplateOf(script) =>
         \A i \in DOMAIN log : log[i].kind = "compose" => log[i].block = template

\* C5: the target is its prefix followed by the copies, composing keeps the
\* template, and changing the template keeps the target.
C5_ValueCopy ==
  [](C5_Copies) /\ [][C5_TemplateKept]_vars /\ [][C5_TargetKept]_vars

C5_Witness ==
  /\ script = "grover" /\ composed >= 2
  /\ template # TemplateOf(script)
  /\ log[1].block = TemplateOf(script)
  /\ log[3].block = template

(***************************************************************************)
(* Sampler and ExecutionFacade: run(circuit, shots, seed).                 *)
(***************************************************************************)
\* The engine's run of a whole circuit from state st = <<amp, k>>; the measurements
\* at the end of the circuit are left to the sampler.
ApplyGate(st, o) ==
  CASE o.g = "h" -> Normalize(ApplyH(st[1], o.tgt[1]), st[2] + 1)
    [] o.g = "z" -> <<ApplyZ(st[1], o.tgt[1]), st[2]>>
    [] OTHER -> <<ApplyPermOp(st[1], o), st[2]>>

RECURSIVE RunGates(_, _, _)
RunGates(c, st, i) == IF i > Len(c) THEN st ELSE RunGates(c, ApplyGate(st, c[i]), i + 1)

\* Born rule: the weight of every outcome (of total 2^k) of a circuit that measures
\* all its n qubits.
Distribution(c, n) ==
  LET st == RunGates(c, <<ZeroState(n), 0>>, 1)
  IN [w |-> [i \in Indices(n) |-> st[1][i] * st[1][i]], total |-> 2 ^ st[2]]

\* The random source: a linear congruential generator on 0 .. 15.
RngNext(s) == (5 * s + 3) % 16

RECURSIVE CumTo(_, _)
CumTo(w, i) == IF i < 0 THEN 0 ELSE w[i] + CumTo(w, i - 1)

\* One draw from the categorical distribution: the first outcome whose cumulative
\* weight exceeds the generator's value scaled to 0 .. total - 1.
Draw(d, s) ==
  LET u == (s * d.total) \div 16
  IN CHOOSE i \in DOMAIN d.w :
       /\ CumTo(d.w, i) > u
       /\ \A j \in DOMAIN d.w : j < i => CumTo(d.w, j) <= u

RECURSIVE SampleFrom(_, _, _, _)
SampleFrom(d, n, s, h) ==
  IF n = 0 THEN [hist |-> h, rng |-> s]
  ELSE LET s2 == RngNext(s)
       IN SampleFrom(d, n - 1, s2, [h EXCEPT ![Draw(d, s2)] = @ + 1])

\* Sampler: shots draws with the generator seeded by sd; the outcome histogram.
SamplerRun(d, n, sd) == SampleFrom(d, n, sd % 16, [i \in DOMAIN d.w |-> 0])

SimulatorRunSharedRng(d, n, sd, prev) == SamplerRun(d, n, sd + prev)

\* simulator = AerSimulator(); simulator.run(circuit, shots=n).result().get_counts():
\* the simulator is constructed by the execution, so the generator state prev that an
\* earlier execution ended with plays no part.
SimulatorRun(d, n, sd, prev) == SamplerRun(d, n, sd)

SampleJobs == {"bell", "ghz", "cnot"}

SampleCircuit(name) ==
  CASE name = "bell" -> [c |-> BellCircuit, n |-> 2]
    [] name = "ghz" -> [c |-> GHZCircuit, n |-> 3]
    [] name = "cnot" -> [c |-> CnotExampleCircuit, n |-> 2]

Executions == {1, 2}

InitSample ==
  /\ sjob \in SampleJobs
  /\ shots \in 1..MaxShots
  /\ seed = [r \in Executions |-> -1]
  /\ hist = [r \in Executions |-> <<>>]
  /\ rng = 0
  /\ SimIdle
  /\ ComposeIdle
  /\ PostIdle
  /\ ErrIdle

\* One execution of a driver script.  No script passes a seed (seed_simulator) to
\* AerSimulator or to run, so the simulator draws one itself for each execution.
RunScript(r) ==
  /\ seed[r] = -1
  /\ \E sd \in 0..MaxSeed :
       LET sc == SampleCircuit(sjob)
           res == SimulatorRun(Distribution(sc.c, sc.n), shots, sd, rng)
       IN /\ seed' = [seed EXCEPT ![r] = sd]
          /\ hist' = [hist EXCEPT ![r] = res.hist]
          /\ rng' = res.rng
  /\ UNCHANGED <<sjob, shots, simVars, composeVars, postVars, errVars>>

NextSample == \E r \in Executions : RunScript(r)

SpecSample == InitSample /\ [][NextSample]_vars

RECURSIVE SumTo(_, _)
SumTo(h, i) == IF i < 0 THEN 0 ELSE h[i] + SumTo(h, i - 1)

BothRan == sjob # "none" /\ \A r \in Executions : seed[r] # -1

Measurements == BitStrings(N_COUNT)

\* decimal = int(measurement, 2), for every string that can be a key of counts.
Decimals == {IntOf(m) : m \in Measurements}

PeriodStepNoIntegerCheck(periods, decimal) ==
  IF decimal # 0
  THEN LET r == (2 ^ N_COUNT) \div decimal
       IN [periods |-> IF r % 2 = 0 /\ \A i \in DOMAIN periods : periods[i] # r
                       THEN Append(periods, r) ELSE periods,
           zerodiv |-> FALSE]
  ELSE [periods |-> periods, zerodiv |-> FALSE]

\* The body of "for measurement in counts" after decimal = int(measurement, 2).
\* r = 2**n_count / decimal is a float; r % 1 == 0 holds exactly when decimal
\* divides 2**n_count, and int(r) is then the quotient.
PeriodStep(periods, decimal) ==
  IF decimal # 0
  THEN IF (2 ^ N_COUNT) % decimal = 0
       THEN LET r == (2 ^ N_COUNT) \div decimal
            IN [periods |-> IF r % 2 = 0 /\ \A i \in DOMAIN periods : periods[i] # r
                            THEN Append(periods, r) ELSE periods,
                zerodiv |-> FALSE]
       ELSE [periods |-> periods, zerodiv |-> FALSE]
  ELSE [periods |-> periods, zerodiv |-> FALSE]

InitPost ==
  /\ measured = {}
  /\ measured_periods = <<>>
  /\ zerodiv = FALSE
  /\ SimIdle
  /\ ComposeIdle
  /\ SampleIdle
  /\ ErrIdle

\* One iteration of the loop over counts: the keys of a dict are distinct.
ProcessMeasurement ==
  /\ Cardinality(measured) < MaxMeasured
  /\ \E decimal \in Decimals \ measured :
       LET res == PeriodStep(measured_periods, decimal)
       IN /\ measured' = measured \cup {decimal}
          /\ measured_periods' = res.periods
          /\ zerodiv' = res.zerodiv
  /\ UNCHANGED <<simVars, composeVars, sampleVars, errVars>>

NextPost == ProcessMeasurement

SpecPost == InitPost /\ [][NextPost]_vars

\* The value whose string was consumed by the step.
Consumed == CHOOSE d \in measured' : d \notin measured

PowerOfTwo == 2 ^ N_COUNT

(***************************************************************************)
(* C11.  Period recovery: a measured 0 contributes nothing and no division *)
(* by zero happens; every element r of measured_periods is an even         *)
(* positive integer with r * d = 2^8 for a measured non-zero d; a measured *)
(* d for which 2^8 / d is not an integer or is odd contributes nothing;    *)
(* no value appears twice.                                                 *)
(***************************************************************************)
C11_Periods ==
  /\ ~zerodiv
  /\ \A i \in DOMAIN measured_periods :
       LET r == measured_periods[i]
       IN /\ r > 0 /\ r % 2 = 0
          /\ \E d \in measured : d # 0 /\ r * d = PowerOfTwo
          /\ \A j \in DOMAIN measured_periods : j # i => measured_periods[j] # r

C11_NothingContributed ==
  (measured' # measured
     /\ (\/ Consumed = 0
         \/ PowerOfTwo % Consumed # 0
         \/ (PowerOfTwo \div Consumed) % 2 = 1))
    => measured_periods' = measured_periods

\* C11: the list holds only even periods r with r * d = 2^8, without repetition, and
\* a measured value that has no such period leaves the list as it was.
C11_PeriodRecovery == [](C11_Periods) /\ [][C11_NothingContributed]_vars

C11_Witness ==
  /\ measured = {0, IntOf(<<0, 1, 0, 0, 0, 0, 0, 0>>)}
  /\ measured_periods = <<4>>

(***************************************************************************)
(* Error outcomes.  One call of a component that can detect an error:      *)
(* call records the component, its arguments, whether the component        *)
(* detected an error, and how the call ended for its immediate caller:     *)
(* "returned" (a normal return with a value) or "raised" (an exception).   *)
(***************************************************************************)

\* The bases a caller can hand to c_amod15(a, power) for N = 15.
Bases == 2 .. (ShorN - 1)

\* The type argument of create_oracle: the two supported names and another string.
OracleTypeNames == {"constant", "balanced", "other"}

\* What the estimator job ends as: job.result() returns, or the job fails.
JobEnds == {"complete", "failed"}

RECURSIVE GCD(_, _)
\* math.gcd(a, b)
GCD(a, b) == IF b = 0 THEN a ELSE GCD(b, a % b)

\* c_amod15(a, power): "if a != 7: print(...); return U.to_gate()"; every branch
\* ends in "return U.to_gate()", the gate CAmod15(a, power).
CAmod15Call(a, power) ==
  [comp |-> "c_amod15", a |-> a, power |-> power, type |-> "",
   detected |-> a # 7, outcome |-> "returned"]

\* shor_algorithm(): "if math.gcd(a, N) != 1: print(...); return"; otherwise the
\* function runs to its end.  Either way the call returns normally, with None.
ShorAlgorithmCall(a) ==
  [comp |-> "shor_algorithm", a |-> a, power |-> 0, type |-> "",
   detected |-> GCD(a, ShorN) # 1, outcome |-> "returned"]

\* create_oracle(type): raises ValueError for a type it does not know.
CreateOracleCall(type) ==
  LET res == DeutschCreateOracle(type)
  IN [comp |-> "create_oracle", a |-> 0, power |-> 0, type |-> type,
      detected |-> res.raised,
      outcome |-> IF res.raised THEN "raised" ELSE "returned"]

\* estimator.run(pubs) ... job.result() inside the script's try block: a failed job
\* raises into the script, whose except clause receives the exception.
EstimatorCall(end) ==
  [comp |-> "estimator", a |-> 0, power |-> 0, type |-> end,
   detected |-> end = "failed",
   outcome |-> IF end = "failed" THEN "raised" ELSE "returned"]

InitErr ==
  /\ call = NoCall
  /\ SimIdle /\ ComposeIdle /\ SampleIdle /\ PostIdle

CallCAmod15 ==
  /\ \E a \in Bases, power \in 0 .. MaxPower : call' = CAmod15Call(a, power)
  /\ UNCHANGED <<simVars, composeVars, sampleVars, postVars>>

\* shor_algorithm sets a = 7 itself.
CallShorAlgorithm ==
  /\ call' = ShorAlgorithmCall(ShorA)
  /\ UNCHANGED <<simVars, composeVars, sampleVars, postVars>>

CallCreateOracle ==
  /\ \E type \in OracleTypeNames : call' = CreateOracleCall(type)
  /\ UNCHANGED <<simVars, composeVars, sampleVars, postVars>>

RunEstimatorJob ==
  /\ \E end \in JobEnds : call' = EstimatorCall(end)
  /\ UNCHANGED <<simVars, composeVars, sampleVars, postVars>>

NextErr ==
  \/ CallCAmod15
  \/ CallShorAlgorithm
  \/ CallCreateOracle
  \/ RunEstimatorJob

SpecErr == InitErr /\ [][NextErr]_vars

(***************************************************************************)
(* C12.  Every error detected inside a component reaches the immediate     *)
(* caller of that component as an error outcome and is never converted     *)
(* into a normal result: a != 7 in c_amod15, gcd(a, N) != 1 in             *)
(* shor_algorithm, an unknown oracle type in create_oracle, a failed       *)
(* estimator job in the hardware Deutsch script.                           *)
(***************************************************************************)
C12_ErrorsPropagate == call.detected => call.outcome = "raised"

(***************************************************************************)
(* The Grover script: the probability of the marked outcome after the      *)
(* number of iterations it computes.                                       *)
(***************************************************************************)
\* The index of the outcome that reads MARKED_STATE.
MarkedIndex == IntOf(MARKED_STATE)

\* p < q for two fractions <<numerator, exponent>> of value numerator / 2^exponent.
FracLess(p, q) ==
  LET m == IF p[2] < q[2] THEN p[2] ELSE q[2]
  IN p[1] * 2 ^ (q[2] - m) < q[1] * 2 ^ (p[2] - m)

\* The other iteration counts the optimum is compared with.
ComparedIterations == (0 .. OPTIMAL_ITERATIONS + 1) \ {OPTIMAL_ITERATIONS}

\* grover_circuit with r iterations composed in, before its measurements.
GroverAtMeasure(r) == job.name = "grover" /\ job.p = r /\ AtMeasureAll

\* The probability of the marked outcome after OPTIMAL_ITERATIONS iterations:
\* (251 / 256)^2 = 63001 / 2^16.
OptimalMarkedProb == <<63001, 16>>

(***************************************************************************)
(* C13.  In the Grover script (4 qubits, marked state 1101),               *)
(* calculate_optimal_iterations(16, 1) is 3, and after exactly 3           *)
(* iterations the probability of the marked outcome is greater than 1/2,   *)
(* greater than the probability of each of the 15 other outcomes, which    *)
(* are all equal, and greater than the marked probability after 0, 1, 2    *)
(* or 4 iterations.                                                        *)
(***************************************************************************)
C13_GroverOptimal ==
  /\ calculate_optimal_iterations(16, 1) = 3
  /\ OPTIMAL_ITERATIONS = 3
  /\ GroverAtMeasure(OPTIMAL_ITERATIONS) =>
       /\ Prob(MarkedIndex) = OptimalMarkedProb
       /\ FracLess(Half, Prob(MarkedIndex))
       /\ Cardinality(DOMAIN amp \ {MarkedIndex}) = 15
       /\ \A i \in DOMAIN amp \ {MarkedIndex} :
            /\ FracLess(Prob(i), Prob(MarkedIndex))
            /\ \A j \in DOMAIN amp \ {MarkedIndex} : Prob(i) = Prob(j)
  /\ \A r \in {0, 1, 2, 4} \cup ComparedIterations :
       GroverAtMeasure(r) => FracLess(Prob(MarkedIndex), OptimalMarkedProb)

C13_Witness ==
  /\ GroverAtMeasure(3)
  /\ MarkedIndex = 13
  /\ Prob(MarkedIndex) = <<63001, 16>>
  /\ \A i \in DOMAIN amp \ {MarkedIndex} : Prob(i) = <<169, 16>>

====
